---- MODULE Spec2Model ----
(***************************************************************************)
(* i18n-translator: the translate command (src/src/index.js) driving       *)
(* Translator.translateFile (src/unnamed/part_000, the variant with plural *)
(* expansion; src/src/translator.js is the same loop without the plural    *)
(* branch).  The Pluralizer of src/unnamed/part_001 (plural-rule cache,    *)
(* generatePluralForms) is a state machine of its own, PluralizerSpec.     *)
(*                                                                         *)
(* Strings are sequences of tokens: "{{" and "}}" are the placeholder      *)
(* markers, "sp" is white space, a language code in front marks a text     *)
(* produced by the completion service for that language, every other token *)
(* is a word.  Keys are sequences of tokens whose last token may be a      *)
(* plural suffix ("_one", "_other", ...).  A catalog is a function from    *)
(* keys to strings.  A file is "missing", "corrupt" or holds a catalog.    *)
(***************************************************************************)
EXTENDS Naturals, Sequences, FiniteSets

\* ------------------------------------------------------------------ bounds
\* Longest source catalog, longest list of target languages, invocations of
\* the command on the same files.
MaxKeys == 2
MaxLangs == 2
MaxRuns == 2
\* Calls made on one Pluralizer.
MaxPluralizerCalls == 3

\* ----------------------------------------------------------------- strings
Includes(s, tok) == \E j \in 1..Len(s) : s[j] = tok

RECURSIVE TrimStart(_)
TrimStart(s) ==
  IF Len(s) > 0 /\ s[1] = "sp" THEN TrimStart(Tail(s)) ELSE s

RECURSIVE TrimEnd(_)
TrimEnd(s) ==
  IF Len(s) > 0 /\ s[Len(s)] = "sp" THEN TrimEnd(SubSeq(s, 1, Len(s) - 1)) ELSE s

Trim(s) == TrimEnd(TrimStart(s))

\* The {{name}} tokens of a string: the names between an opening and a
\* closing marker.
Placeholders(s) ==
  { s[j + 1] : j \in { n \in 1..Len(s) : n + 2 <= Len(s) /\ s[n] = "{{" /\ s[n + 2] = "}}" } }

\* ------------------------------------------------------------------- keys
EndsWith(key, suffix) == Len(key) > 0 /\ key[Len(key)] = suffix

\* key.replace(/_other$/, '')
BaseKey(key) ==
  IF EndsWith(key, "_other") THEN SubSeq(key, 1, Len(key) - 1) ELSE key

\* --------------------------------------------------------------- catalogs
EmptyCatalog == <<>>

Put(cat, k, v) ==
  [x \in (DOMAIN cat) \cup {k} |-> IF x = k THEN v ELSE cat[x]]

\* The truthiness of cat[k] for a catalog of strings: the key is present and
\* its value is not the empty string.
Truthy(cat, k) == k \in DOMAIN cat /\ Len(cat[k]) > 0

\* Faulty variant: every failure is answered with an empty object.
LoadJsonFile_SwallowAll(file) ==
  [ok |-> TRUE, data |-> IF file.state = "present" THEN file.data ELSE EmptyCatalog]

\* Faulty variant: ENOENT is rethrown like any other error.
LoadJsonFile_ThrowOnMissing(file) ==
  [ok |-> file.state = "present", data |-> file.data]

\* loadJsonFile: a missing file is an empty object, any other failure is
\* rethrown.
LoadJsonFile(file) ==
  CASE file.state = "missing" -> [ok |-> TRUE, data |-> EmptyCatalog]
    [] file.state = "corrupt" -> [ok |-> FALSE, data |-> EmptyCatalog]
    [] OTHER -> [ok |-> TRUE, data |-> file.data]

Missing == [state |-> "missing", data |-> EmptyCatalog]
Corrupt == [state |-> "corrupt", data |-> EmptyCatalog]
FileOf(cat) == [state |-> "present", data |-> cat]

\* ------------------------------------------------- the files of the model
Languages == {"ar", "fr"}

K_greeting == <<"greeting">>
K_count_one == <<"count", "_one">>
K_count_other == <<"count", "_other">>
K_count_zero == <<"count", "_zero">>

\* The entries a source catalog is made of (the spec's end-to-end scenario).
SourceEntries ==
  { <<K_greeting, <<"Hello", "{{", "name", "}}">> >>,
    <<K_count_one, <<"{{", "count", "}}", "item">> >>,
    <<K_count_other, <<"{{", "count", "}}", "items">> >> }

NoRepeat(seq) == \A a, b \in 1..Len(seq) : a # b => seq[a][1] # seq[b][1]

\* Object.entries order of a source catalog: distinct keys, insertion order.
SourceCatalogs ==
  { seq \in UNION { [1..n -> SourceEntries] : n \in 0..MaxKeys } : NoRepeat(seq) }

Old == <<"old">>

\* Target catalogs left by earlier work: any of three keys already translated,
\* or a key present with an empty value.
TargetCatalogs ==
  UNION { [ks -> {Old}] : ks \in SUBSET {K_greeting, K_count_one, K_count_zero} }
    \cup { [k \in {K_greeting} |-> <<>>] }

TargetFiles == {Missing, Corrupt} \cup { FileOf(cat) : cat \in TargetCatalogs }

\* ---------------------------------------------------- completion service
\* What openai.chat.completions.create may do: throw, or answer with a
\* content.  The client of a language is "any" (every outcome below), "fail"
\* (every call throws) or "ok" (every call answers faithfully).
Success(content) == [ok |-> TRUE, content |-> content]
Thrown(content) == [ok |-> FALSE, content |-> content]
Failure == Thrown(<<>>)

RECURSIVE DropPlaceholders(_)
DropPlaceholders(s) ==
  IF Len(s) = 0 THEN s
  ELSE IF Len(s) >= 3 /\ s[1] = "{{" /\ s[3] = "}}"
       THEN DropPlaceholders(SubSeq(s, 4, Len(s)))
       ELSE <<s[1]>> \o DropPlaceholders(Tail(s))

TranslationResponses(mode, language, text) ==
  CASE mode = "fail" -> { Failure }
    [] mode = "ok" -> { Success(<<language>> \o text) }
    [] OTHER ->
         { Failure,
           Success(<<"sp", language>> \o text \o <<"sp">>),
           Success(<<language>> \o DropPlaceholders(text)),
           Success(<<"sp">>) }

\* The content of an expansion answer: prose ("Here are the forms: ..."), or
\* a JSON text that is a number, null, or an object with the given entries.
Prose == [form |-> "prose", entries |-> <<>>]
JsonNumber == [form |-> "number", entries |-> <<>>]
JsonNull == [form |-> "null", entries |-> <<>>]
JsonObject(entries) == [form |-> "object", entries |-> entries]
ExpansionFailure == Thrown(Prose)

\* A JSON value that is not a string (the number 42), as a catalog value.
Number42 == <<"#42">>
IsString(v) == v # Number42

\* The suffixes the expansion prompt asks for.
PluralSuffixes == {"_zero", "_one", "_two", "_few", "_many", "_other"}

ExpansionResponses(mode, language, key, value) ==
  LET base == BaseKey(key)
      other == <<key, <<language, "rf">> \o value>>
      zero == <<base \o <<"_zero">>, <<language, "zero">> \o DropPlaceholders(value)>>
      one == <<base \o <<"_one">>, <<language, "one">> \o value>>
  IN CASE mode = "fail" -> { ExpansionFailure }
       [] mode = "ok" -> { Success(JsonObject(<<zero, other>>)) }
       [] mode = "stray" ->
            { Success(JsonObject(<<zero, other>>)),
              Success(JsonObject(<<other, <<<<"note">>, <<language, "note">>>>>>)),
              Success(JsonObject(<<zero, <<key, Number42>>>>)) }
       [] OTHER ->
            { ExpansionFailure,
              Success(Prose),
              Success(JsonNumber),
              Success(JsonNull),
              Success(JsonObject(<<other>>)),
              Success(JsonObject(<<zero, other>>)),
              Success(JsonObject(<<one, other>>)),
              Success(JsonObject(<<zero>>)) }

\* ------------------------------------------------------------- Translator
\* Faulty variant: the catch of translateString logs the error and does not rethrow.
TranslateString_Swallow(resp) ==
  [ok |-> TRUE, text |-> IF resp.ok THEN Trim(resp.content) ELSE <<>>]

\* translateString: the trimmed content of the answer, or the rethrown error.
TranslateString(resp) ==
  [ok |-> resp.ok, text |-> IF resp.ok THEN Trim(resp.content) ELSE <<>>]

\* JSON.parse of an answer's content: a SyntaxError for prose, else the value.
\* Later entries of an object replace earlier ones with the same key.
RECURSIVE ParseEntries(_)
ParseEntries(entries) ==
  IF Len(entries) = 0 THEN <<>>
  ELSE LET last == entries[Len(entries)]
           front == ParseEntries(SubSeq(entries, 1, Len(entries) - 1))
       IN IF \E j \in 1..Len(front) : front[j][1] = last[1]
          THEN [j \in 1..Len(front) |-> IF front[j][1] = last[1] THEN last ELSE front[j]]
          ELSE Append(front, last)

JsonParse(content) ==
  CASE content.form = "prose" -> [ok |-> FALSE, type |-> "none", entries |-> <<>>]
    [] content.form = "object" ->
         [ok |-> TRUE, type |-> "object", entries |-> ParseEntries(content.entries)]
    [] OTHER -> [ok |-> TRUE, type |-> content.form, entries |-> <<>>]

\* Object.keys / Object.entries of a parsed value: a TypeError for null, no
\* entry for a number, the own entries of an object.
ObjectKeysThrows(value) == value.type = "null"
ObjectEntries(value) == IF value.type = "object" THEN value.entries ELSE <<>>

\* The one-entry fallback { [key]: translatedValue }.
Fallback(key, translatedValue) ==
  [type |-> "object", entries |-> << <<key, translatedValue>> >>]

\* Faulty variant: the closing marker is not asked for.
HasVariables_OpeningOnly(value) == Includes(value, "{{")

\* generatePluralForms short-circuits (no call) unless the value holds both
\* markers.
HasVariables(value) == Includes(value, "{{") /\ Includes(value, "}}")

\* generatePluralForms after its completion call: the parsed answer, or the
\* fallback when the call throws, the content does not parse, or logging the
\* number of forms throws.
PluralFormsOf(key, translatedValue, resp) ==
  IF ~resp.ok THEN Fallback(key, translatedValue)
  ELSE LET parsed == JsonParse(resp.content)
       IN IF ~parsed.ok \/ ObjectKeysThrows(parsed)
          THEN Fallback(key, translatedValue)
          ELSE [type |-> parsed.type, entries |-> parsed.entries]

\* Faulty variant: the value is not looked at.
IsPluralKey_SuffixOnly(key, value) == EndsWith(key, "_other")

\* The plural test of translateFile (and Pluralizer.isPluralKey).
IsPluralKey(key, value) == EndsWith(key, "_other") /\ Includes(value, "{{")

\* translateFile's forEach over Object.entries(pluralForms): every entry is
\* assigned, every key other than the originating one is counted.
RECURSIVE MergeForms(_, _)
MergeForms(cat, entries) ==
  IF Len(entries) = 0 THEN cat
  ELSE MergeForms(Put(cat, entries[1][1], entries[1][2]), Tail(entries))

\* Faulty variant: the originating key is counted with the others.
AdditionalForms_All(key, entries) == Len(entries)

AdditionalForms(key, entries) ==
  Cardinality({ j \in 1..Len(entries) : entries[j][1] # key })

\* ------------------------------------------------------------- Pluralizer
\* What loadPluralRules returns: null, or the document of a rule file.
NoRules == [null |-> TRUE, instructions |-> <<>>]
Rules(instructions) == [null |-> FALSE, instructions |-> instructions]

\* The documents config/plural_rules/<language>.json may hold: JSON objects
\* with the instructions of that language, in two editions.
RuleDocuments(language) == { Rules(<<language, "a">>), Rules(<<language, "b">>) }

\* The rule file of a language: missing, unreadable, or holding a document.
RuleFiles(language) ==
  { [state |-> "missing", data |-> NoRules], [state |-> "corrupt", data |-> NoRules] }
    \cup { [state |-> "present", data |-> doc] : doc \in RuleDocuments(language) }

\* Faulty variant: the cache is never consulted.
CacheHit_Never(cache, language) == FALSE

\* if (this.pluralRulesCache[language]): the language has an entry and the
\* entry is truthy (a document is an object, null is not).
CacheHit(cache, language) == language \in DOMAIN cache /\ ~cache[language].null

\* loadPluralRules: the rules it returns, whether it read the file, and the
\* cache it leaves.  A missing or unreadable file is logged and answered
\* with null.
PluralRulesOf(cache, file, language) ==
  IF CacheHit(cache, language)
  THEN [rules |-> cache[language], read |-> FALSE, cache |-> cache]
  ELSE IF file.state = "present"
  THEN [rules |-> file.data, read |-> TRUE, cache |-> Put(cache, language, file.data)]
  ELSE [rules |-> NoRules, read |-> TRUE, cache |-> cache]

\* ------------------------------------------------------------------ state
VARIABLES
  apiKey,                \* process.env.OPENAI_API_KEY is set
  sourceFile,            \* <inputDir>/<source>.json
  files,                 \* <outputDir>/<language>.json, per language
  client,                \* behaviour of the completion service, per language
  diskFaulty,            \* whether ensureDir / writeJson may fail
  targetLanguages,       \* options.target.split(',')
  cmd,                   \* "init", "running", "finished", "exited"
  li,                    \* position of the for loop over targetLanguages
  report,                \* what the command printed per language
  runNo,                 \* invocation of the command on these files
  pc,                    \* translateFile: "idle", "loop", "plural", "save",
                         \*   "returned", "thrown"
  sourceStrings,         \* Object.entries(sourceStrings)
  existingTranslations,
  newTranslations,
  stats,
  idx,                   \* position of the for loop over the source entries
  translatedText,
  pluralForms,           \* what generatePluralForms returned for this key
  error,                 \* the error translateFile threw, "none" if none
  calls,                 \* completion calls of this translateFile, in order
  files0,                \* the target files when the command was invoked
  ruleFiles,             \* config/plural_rules/<language>.json, per language
  pluralRulesCache,      \* Pluralizer: this.pluralRulesCache
  loads,                 \* Pluralizer: the loadPluralRules calls, in order
  generated              \* Pluralizer: the last generatePluralForms call, if any

vars ==
  <<apiKey, sourceFile, files, client, diskFaulty, targetLanguages, cmd, li,
    report, runNo, pc, sourceStrings, existingTranslations, newTranslations,
    stats, idx, translatedText, pluralForms, error, calls, files0,
    ruleFiles, pluralRulesCache, loads, generated>>

envVars == <<apiKey, sourceFile, client, diskFaulty, targetLanguages>>
frameVars ==
  <<sourceStrings, existingTranslations, newTranslations, stats, idx,
    translatedText, pluralForms, error, calls>>

pluralizerVars == <<ruleFiles, pluralRulesCache, loads, generated>>
translatorVars == <<envVars, files, cmd, li, report, runNo, pc, frameVars, files0>>

NoForms == [type |-> "none", entries |-> <<>>]

ZeroStats == [total |-> 0, translated |-> 0, skipped |-> 0, failed |-> 0]

SourceFiles == {Missing, Corrupt} \cup { FileOf(cat) : cat \in SourceCatalogs }

\* No translateFile is running.
IdleFrame ==
  /\ pc = "idle"
  /\ sourceStrings = <<>>
  /\ existingTranslations = EmptyCatalog
  /\ newTranslations = EmptyCatalog
  /\ stats = ZeroStats
  /\ idx = 1
  /\ translatedText = <<>>
  /\ pluralForms = NoForms
  /\ error = "none"
  /\ calls = <<>>

\* The translate command constructs no Pluralizer (the Translator of
\* part_000 expands plurals itself).
NoPluralizer ==
  /\ ruleFiles = [l \in Languages |-> [state |-> "missing", data |-> NoRules]]
  /\ pluralRulesCache = <<>>
  /\ loads = <<>>
  /\ generated = <<>>

\* One target language, an arbitrary completion service, a disk that may fail.
Init ==
  /\ apiKey \in BOOLEAN
  /\ sourceFile \in SourceFiles
  /\ \E f \in TargetFiles : files = [l \in Languages |-> IF l = "ar" THEN f ELSE Missing]
  /\ client = [l \in Languages |-> "any"]
  /\ diskFaulty = TRUE
  /\ targetLanguages = <<"ar">>
  /\ cmd = "init"
  /\ li = 1
  /\ report = <<>>
  /\ runNo = 1
  /\ IdleFrame
  /\ files0 = files
  /\ NoPluralizer

\* --------------------------------------------------------------- index.js
\* The validation at the head of the translate action.
CommandStart ==
  /\ cmd = "init"
  /\ cmd' = IF apiKey /\ sourceFile.state # "missing" THEN "running" ELSE "exited"
  /\ UNCHANGED <<envVars, pluralizerVars, files, li, report, runNo, pc, frameVars, files0>>

\* One completion call: translateString's or generatePluralForms', the key it
\* was made for, whether it answered, and the form of the answer's content.
Call(kind, key, ok, form) ==
  [kind |-> kind, key |-> key, ok |-> ok, form |-> IF ok THEN form ELSE "none"]

\* Faulty variant: the entries are taken from the last to the first.
Key_Reversed(j) == sourceStrings[Len(sourceStrings) + 1 - j][1]

Key(j) == sourceStrings[j][1]
Value(j) == sourceStrings[j][2]
Language == targetLanguages[li]

\* translateFile up to its loop: ensureDir, the two catalog loads, the stats.
\* (loadGlossary and loadStyleGuide swallow every error and only feed the
\* prompt.)
TranslateFileBegin ==
  /\ cmd = "running" /\ pc = "idle" /\ li <= Len(targetLanguages)
  /\ \E dirOk \in {TRUE} \cup {~diskFaulty} :
       LET src == LoadJsonFile(sourceFile)
           tgt == LoadJsonFile(files[Language])
       IN IF dirOk /\ src.ok /\ tgt.ok
          THEN /\ pc' = "loop"
               /\ sourceStrings' = src.data
               /\ existingTranslations' = tgt.data
               /\ newTranslations' = tgt.data
               /\ stats' = [ZeroStats EXCEPT !.total = Len(src.data)]
               /\ UNCHANGED error
          ELSE /\ pc' = "thrown"
               /\ error' = IF ~dirOk THEN "ensureDir"
                            ELSE IF ~src.ok THEN "source" ELSE "target"
               /\ UNCHANGED <<sourceStrings, existingTranslations, newTranslations, stats>>
  /\ UNCHANGED <<envVars, pluralizerVars, files, cmd, li, report, runNo, idx, translatedText,
                 pluralForms, calls, files0>>

\* Faulty variant: the skip test negated.
AlreadyTranslated_Inverted(key) == ~Truthy(existingTranslations, key)

\* The skip test: existingTranslations[key] is truthy.
AlreadyTranslated(key) == Truthy(existingTranslations, key)

\* Faulty variant: the loop body has no catch, the error leaves translateFile.
KeyFailed_Rethrow ==
  /\ pc' = "thrown"
  /\ error' = "key"
  /\ UNCHANGED <<stats, idx>>

\* The catch of the loop body: the key is counted failed and the loop goes on.
KeyFailed ==
  /\ stats' = [stats EXCEPT !.failed = @ + 1]
  /\ pc' = "loop"
  /\ idx' = idx + 1
  /\ UNCHANGED error

\* if (existingTranslations[key]) { stats.skipped++; continue; }
SkipKey ==
  /\ pc = "loop" /\ idx <= Len(sourceStrings)
  /\ AlreadyTranslated(Key(idx))
  /\ stats' = [stats EXCEPT !.skipped = @ + 1]
  /\ idx' = idx + 1
  /\ UNCHANGED <<envVars, pluralizerVars, files, cmd, li, report, runNo, pc, sourceStrings,
                 existingTranslations, newTranslations, translatedText,
                 pluralForms, error, calls, files0>>

\* The translateString call of a key that is not skipped.  A throw is caught
\* by the loop's catch (failed++); a plural key goes on to its expansion,
\* any other key is assigned and counted.
TranslateKey ==
  /\ pc = "loop" /\ idx <= Len(sourceStrings)
  /\ ~AlreadyTranslated(Key(idx))
  /\ \E resp \in TranslationResponses(client[Language], Language, Value(idx)) :
       LET res == TranslateString(resp)
       IN /\ calls' = Append(calls, Call("translate", Key(idx), resp.ok, "text"))
          /\ IF ~res.ok
             THEN /\ KeyFailed
                  /\ UNCHANGED <<newTranslations, translatedText>>
             ELSE IF IsPluralKey(Key(idx), Value(idx))
             THEN /\ pc' = "plural"
                  /\ translatedText' = res.text
                  /\ UNCHANGED <<stats, idx, newTranslations, error>>
             ELSE /\ pc' = "save"
                  /\ newTranslations' = Put(newTranslations, Key(idx), res.text)
                  /\ translatedText' = res.text
                  /\ stats' = [stats EXCEPT !.translated = @ + 1]
                  /\ UNCHANGED <<idx, error>>
  /\ UNCHANGED <<envVars, pluralizerVars, files, cmd, li, report, runNo, sourceStrings,
                 existingTranslations, pluralForms, files0>>

\* Merging the forms generatePluralForms returned, and the counting.
MergePlural(forms) ==
  /\ pluralForms' = forms
  /\ newTranslations' = MergeForms(newTranslations, ObjectEntries(forms))
  /\ stats' = [stats EXCEPT
       !.translated = @ + AdditionalForms(Key(idx), ObjectEntries(forms)) + 1]

\* generatePluralForms and the merge of what it returns.
ExpandPlural ==
  /\ pc = "plural"
  /\ IF ~HasVariables(Value(idx))
     THEN /\ MergePlural(Fallback(Key(idx), translatedText))
          /\ UNCHANGED calls
     ELSE \E resp \in ExpansionResponses(client[Language], Language, Key(idx), Value(idx)) :
            /\ calls' = Append(calls, Call("expand", Key(idx), resp.ok, resp.content.form))
            /\ MergePlural(PluralFormsOf(Key(idx), translatedText, resp))
  /\ pc' = "save"
  /\ UNCHANGED <<envVars, pluralizerVars, files, cmd, li, report, runNo, sourceStrings,
                 existingTranslations, idx, translatedText, error, files0>>

\* saveJsonFile after a successful translation; a throw is caught by the
\* loop's catch (failed++).
SaveProgress ==
  /\ pc = "save"
  /\ \E saved \in {TRUE} \cup {~diskFaulty} :
       IF saved
       THEN /\ files' = [files EXCEPT ![Language] = FileOf(newTranslations)]
            /\ pc' = "loop"
            /\ idx' = idx + 1
            /\ UNCHANGED <<stats, error>>
       ELSE /\ KeyFailed
            /\ UNCHANGED files
  /\ translatedText' = <<>>
  /\ pluralForms' = NoForms
  /\ UNCHANGED <<envVars, pluralizerVars, cmd, li, report, runNo, sourceStrings,
                 existingTranslations, newTranslations, calls, files0>>

\* The loop is over: translateFile returns its stats.
TranslateFileReturn ==
  /\ pc = "loop" /\ idx > Len(sourceStrings)
  /\ pc' = "returned"
  /\ UNCHANGED <<envVars, pluralizerVars, files, cmd, li, report, runNo, frameVars, files0>>

\* Faulty variant: an error thrown by translateFile ends the for loop.
AfterLanguage_AbortOnError ==
  IF pc = "thrown" THEN Len(targetLanguages) + 1 ELSE li + 1

\* The for loop goes on to the next target language, whether translateFile
\* returned or threw.
AfterLanguage == li + 1

\* index.js prints the stats, or catches the error, and goes on to the next
\* target language.
ReportLanguage ==
  /\ pc \in {"returned", "thrown"}
  /\ report' = Append(report,
       [language |-> Language,
        outcome |-> IF pc = "returned" THEN "completed" ELSE "error",
        stats |-> stats,
        error |-> error])
  /\ li' = AfterLanguage
  /\ pc' = "idle"
  /\ sourceStrings' = <<>>
  /\ existingTranslations' = EmptyCatalog
  /\ newTranslations' = EmptyCatalog
  /\ stats' = ZeroStats
  /\ idx' = 1
  /\ translatedText' = <<>>
  /\ pluralForms' = NoForms
  /\ error' = "none"
  /\ calls' = <<>>
  /\ UNCHANGED <<envVars, pluralizerVars, files, cmd, runNo, files0>>

\* The for loop over the target languages is over.
CommandEnd ==
  /\ cmd = "running" /\ pc = "idle" /\ li > Len(targetLanguages)
  /\ cmd' = "finished"
  /\ UNCHANGED <<envVars, pluralizerVars, files, li, report, runNo, pc, frameVars, files0>>

\* The command is run again on the files the last run left.
InvokeAgain ==
  /\ cmd = "finished" /\ runNo < MaxRuns
  /\ cmd' = "init"
  /\ li' = 1
  /\ report' = <<>>
  /\ runNo' = runNo + 1
  /\ files0' = files
  /\ UNCHANGED <<envVars, pluralizerVars, files, pc, frameVars>>

Next ==
  \/ CommandStart
  \/ TranslateFileBegin
  \/ SkipKey
  \/ TranslateKey
  \/ ExpandPlural
  \/ SaveProgress
  \/ TranslateFileReturn
  \/ ReportLanguage
  \/ CommandEnd
  \/ InvokeAgain

Spec == Init /\ [][Next]_vars

\* A batch of target languages, each with a completion service that always
\* fails or always answers faithfully, on a disk that does not fail.
BatchTargetFiles == {Missing, Corrupt, FileOf([k \in {K_greeting} |-> Old])}

BatchInit ==
  /\ apiKey \in BOOLEAN
  /\ sourceFile \in SourceFiles
  /\ targetLanguages \in UNION { [1..n -> Languages] : n \in 1..MaxLangs }
  /\ files \in [Languages -> BatchTargetFiles]
  /\ client \in [Languages -> {"fail", "ok"}]
  /\ diskFaulty = FALSE
  /\ cmd = "init"
  /\ li = 1
  /\ report = <<>>
  /\ runNo = 1
  /\ IdleFrame
  /\ files0 = files
  /\ NoPluralizer

BatchSpec == BatchInit /\ [][Next]_vars

\* Source catalogs on the border of the plural test: a key with the _other
\* suffix and a value without a marker, and one whose value opens a
\* placeholder and never closes it.
K_title_other == <<"title", "_other">>
K_price_other == <<"price", "_other">>

PluralSourceEntries ==
  { <<K_count_one, <<"{{", "count", "}}", "item">> >>,
    <<K_count_other, <<"{{", "count", "}}", "items">> >>,
    <<K_title_other, <<"Items">> >>,
    <<K_price_other, <<"{{", "price">> >> }

PluralSourceCatalogs ==
  { seq \in UNION { [1..n -> PluralSourceEntries] : n \in 0..MaxKeys } : NoRepeat(seq) }

PluralInit ==
  /\ apiKey = TRUE
  /\ sourceFile \in { FileOf(cat) : cat \in PluralSourceCatalogs }
  /\ \E f \in {Missing, FileOf([k \in {K_title_other} |-> Old])} :
       files = [l \in Languages |-> IF l = "ar" THEN f ELSE Missing]
  /\ client = [l \in Languages |-> "any"]
  /\ diskFaulty = FALSE
  /\ targetLanguages = <<"ar">>
  /\ cmd = "init"
  /\ li = 1
  /\ report = <<>>
  /\ runNo = 1
  /\ IdleFrame
  /\ files0 = files
  /\ NoPluralizer

PluralSpec == PluralInit /\ [][Next]_vars

\* A completion service whose expansion answers are JSON objects that do not
\* keep to the prompt: a key that is no plural form, a value that is no
\* string.
StrayInit ==
  /\ apiKey = TRUE
  /\ sourceFile \in { FileOf(cat) : cat \in SourceCatalogs }
  /\ \E f \in {Missing, FileOf([k \in {K_greeting} |-> Old])} :
       files = [l \in Languages |-> IF l = "ar" THEN f ELSE Missing]
  /\ client = [l \in Languages |-> "stray"]
  /\ diskFaulty = FALSE
  /\ targetLanguages = <<"ar">>
  /\ cmd = "init"
  /\ li = 1
  /\ report = <<>>
  /\ runNo = 1
  /\ IdleFrame
  /\ files0 = files
  /\ NoPluralizer

StraySpec == StrayInit /\ [][Next]_vars

\* ------------------------------------------- the Pluralizer of part_001
\* A caller's loadPluralRules(language).
LoadPluralRules ==
  /\ Len(loads) < MaxPluralizerCalls
  /\ \E language \in Languages :
       LET r == PluralRulesOf(pluralRulesCache, ruleFiles[language], language)
       IN /\ loads' = Append(loads,
               [language |-> language, rules |-> r.rules, read |-> r.read])
          /\ pluralRulesCache' = r.cache
  /\ UNCHANGED <<translatorVars, ruleFiles, generated>>

\* A caller's generatePluralForms(key, value, translatedValue, language):
\* the short-circuit, or the rule load, the completion call and the parse of
\* its answer.
GeneratePluralForms ==
  /\ Len(loads) < MaxPluralizerCalls
  /\ \E language \in Languages, e \in PluralSourceEntries :
       LET key == e[1]
           value == e[2]
           translatedValue == <<language>> \o value
           done(forms, n) ==
             generated' =
               << [key |-> key, value |-> value, language |-> language,
                   translatedValue |-> translatedValue, forms |-> forms,
                   loaded |-> n, asked |-> n] >>
       IN IF ~HasVariables(value)
          THEN /\ done(Fallback(key, translatedValue), 0)
               /\ UNCHANGED <<loads, pluralRulesCache>>
          ELSE LET r == PluralRulesOf(pluralRulesCache, ruleFiles[language], language)
               IN /\ loads' = Append(loads,
                       [language |-> language, rules |-> r.rules, read |-> r.read])
                  /\ pluralRulesCache' = r.cache
                  /\ \E resp \in ExpansionResponses("ok", language, key, value)
                                   \cup ExpansionResponses("fail", language, key, value) :
                       done(PluralFormsOf(key, translatedValue, resp), 1)
  /\ UNCHANGED <<translatorVars, ruleFiles>>

\* The rule file of a language is written, damaged or removed between calls.
RuleFileChanges ==
  /\ \E language \in Languages : \E f \in RuleFiles(language) :
       /\ f # ruleFiles[language]
       /\ ruleFiles' = [ruleFiles EXCEPT ![language] = f]
  /\ UNCHANGED <<translatorVars, pluralRulesCache, loads, generated>>

PluralizerInit ==
  /\ apiKey = TRUE
  /\ sourceFile = Missing
  /\ files = [l \in Languages |-> Missing]
  /\ client = [l \in Languages |-> "any"]
  /\ diskFaulty = FALSE
  /\ targetLanguages = <<"ar">>
  /\ cmd = "exited"
  /\ li = 1
  /\ report = <<>>
  /\ runNo = 1
  /\ IdleFrame
  /\ files0 = files
  /\ ruleFiles \in [Languages -> UNION { RuleFiles(l) : l \in Languages }]
  /\ \A l \in Languages : ruleFiles[l] \in RuleFiles(l)
  /\ pluralRulesCache = <<>>
  /\ loads = <<>>
  /\ generated = <<>>

PluralizerNext ==
  \/ LoadPluralRules
  \/ GeneratePluralForms
  \/ RuleFileChanges

PluralizerSpec == PluralizerInit /\ [][PluralizerNext]_vars

\* ================================================================= claims
Running == pc \in {"loop", "plural", "save", "returned"}
Persisted == LoadJsonFile(files[Language]).data
EntryOf(cat, k) == IF k \in DOMAIN cat THEN <<cat[k]>> ELSE <<>>

\* C1 (as claimed): during a translateFile run, every key the loaded target
\* catalog holds with a non-empty value keeps that value in the merged catalog
\* and in the target file, whatever the completion service answers.
C1_LoadedValuesNeverOverwritten ==
  Running =>
    \A k \in DOMAIN existingTranslations :
      Truthy(existingTranslations, k) =>
        /\ EntryOf(newTranslations, k) = <<existingTranslations[k]>>
        /\ EntryOf(Persisted, k) = <<existingTranslations[k]>>

\* C2 (as claimed): a second run on the catalog the first run persisted, once
\* translateFile returns, has made no call, changed no file, and reports
\* skipped == total and translated == 0.
C2_SecondRunChangesNothing ==
  (runNo >= 2 /\ pc = "returned") =>
    /\ calls = <<>>
    /\ files = files0
    /\ stats.skipped = stats.total
    /\ stats.translated = 0

\* C2 (amended): a second run on a persisted catalog that holds a non-empty
\* value for every source key makes no call and no write at any point, counts
\* nothing translated or failed, and returns skipped == total.
C2_ResumeIdempotent ==
  (runNo >= 2 /\ Running
     /\ \A j \in 1..Len(sourceStrings) : Truthy(existingTranslations, Key(j))) =>
    /\ calls = <<>>
    /\ files = files0
    /\ newTranslations = existingTranslations
    /\ pc \in {"loop", "returned"}
    /\ stats.translated = 0
    /\ stats.failed = 0
    /\ pc = "returned" => stats.skipped = stats.total

\* A second run of a catalog whose keys the first run translated: nothing is
\* left to do.
C2_Witness ==
  /\ runNo = 2 /\ pc = "returned"
  /\ stats.total >= 1 /\ stats.skipped = stats.total
  /\ \E k \in DOMAIN existingTranslations :
       Len(existingTranslations[k]) > 0 /\ existingTranslations[k] # Old

\* C3 (as claimed): between two keys, and at the return, the target file
\* equals the merged catalog.
C3_PersistedEqualsMerged ==
  pc \in {"loop", "returned"} => Persisted = newTranslations

\* The step that handles a key the loaded target catalog holds with a
\* non-empty value.
C4_SkipStep ==
  (pc = "loop" /\ idx <= Len(sourceStrings) /\ Truthy(existingTranslations, Key(idx))) =>
    /\ calls' = calls
    /\ files' = files
    /\ newTranslations' = newTranslations
    /\ stats' = [stats EXCEPT !.skipped = @ + 1]
    /\ idx' = idx + 1
    /\ pc' = "loop"

\* C4: no completion call is ever made for a key the loaded target catalog
\* holds with a non-empty value, and the step that handles such a key makes no
\* call, writes no file, leaves the merged catalog alone and adds one to
\* skipped and to no other counter.
C4_SkippedKeyUntouched ==
  /\ [](\A j \in 1..Len(calls) : ~Truthy(existingTranslations, calls[j].key))
  /\ [][C4_SkipStep]_vars

\* A run that skipped a key and translated another.
C4_Witness ==
  /\ pc = "returned"
  /\ stats.skipped >= 1 /\ stats.translated >= 1
  /\ calls # <<>>

\* The step in which the translation call of a key throws.
C5_FailedCallStep ==
  (Len(calls') = Len(calls) + 1
     /\ calls'[Len(calls')].kind = "translate" /\ ~calls'[Len(calls')].ok) =>
    /\ stats' = [stats EXCEPT !.failed = @ + 1]
    /\ newTranslations' = newTranslations
    /\ files' = files
    /\ pc' = "loop"
    /\ idx' = idx + 1
    /\ calls'[Len(calls')].key = Key(idx)

\* No key is asked for twice by the same kind of call.
C5_NoRetry ==
  \A a, b \in 1..Len(calls) :
    (a # b /\ calls[a].kind = calls[b].kind) => calls[a].key # calls[b].key

\* C5: the step in which the translation call of a key throws adds one to
\* failed and to no other counter, leaves the merged catalog and the files
\* alone and moves on to the next key; no key is ever asked for twice.
C5_FailedCallIsolated ==
  /\ []C5_NoRetry
  /\ [][C5_FailedCallStep]_vars

\* A failed key followed by a key that was translated and saved.
C5_Witness ==
  /\ pc = "returned"
  /\ Len(calls) >= 2
  /\ ~calls[1].ok /\ calls[2].ok
  /\ stats.failed = 1 /\ stats.translated >= 1
  /\ Persisted = newTranslations /\ newTranslations # existingTranslations

LastCall == calls[Len(calls)]

\* C6 (as claimed): what generatePluralForms returns after its completion
\* call is the one-entry fallback whenever the call threw or the answer is no
\* JSON object, and is in every case that fallback or a parsed key-value
\* mapping.
C6_FallbackOrMapping ==
  (pc = "save" /\ calls # <<>> /\ LastCall.kind = "expand") =>
    /\ (~LastCall.ok \/ LastCall.form # "object") =>
         pluralForms = Fallback(Key(idx), translatedText)
    /\ \/ pluralForms = Fallback(Key(idx), translatedText)
       \/ pluralForms.type = "object"

\* Every source key was visited: skipped, or asked for.
C7_EveryKeyVisited ==
  pc = "returned" =>
    /\ idx = Len(sourceStrings) + 1
    /\ stats.total = Len(sourceStrings)
    /\ \A j \in 1..Len(sourceStrings) :
         \/ Truthy(existingTranslations, Key(j))
         \/ \E c \in 1..Len(calls) : calls[c].kind = "translate" /\ calls[c].key = Key(j)

\* C7 (as claimed): a translateFile that returns has visited every source
\* key, and a translateFile that throws throws the failure of the load of the
\* source or of the target catalog.
C7_OnlyLoadsThrow ==
  /\ C7_EveryKeyVisited
  /\ pc = "thrown" => error \in {"source", "target"}

\* Once the loop is entered translateFile goes on to its return.
C7_LoopStep ==
  pc \in {"loop", "plural", "save"} => pc' \in {"loop", "plural", "save", "returned"}

\* C7 (amended): no failure while a key is processed escapes translateFile:
\* once the loop is entered it visits every source key and returns; it throws
\* only before the loop, from creating the output directory or from the load
\* of the source or of the target catalog, with no call made and no file
\* written.
C7_NoKeyFailureEscapes ==
  /\ [](/\ C7_EveryKeyVisited
        /\ pc = "thrown" =>
             /\ error \in {"ensureDir", "source", "target"}
             /\ calls = <<>> /\ idx = 1 /\ files = files0)
  /\ [][C7_LoopStep]_vars

\* A run that met a failed translation call, a failed expansion call and a
\* failed save, and returned.
C7_Witness ==
  /\ pc = "returned"
  /\ \E a, b \in 1..Len(calls) :
       /\ calls[a].kind = "translate" /\ ~calls[a].ok
       /\ calls[b].kind = "expand" /\ ~calls[b].ok
  /\ stats.failed = 2
  /\ Persisted # newTranslations

\* translateFile of one language alone, with a completion service that always
\* answers faithfully and a disk that does not fail: the catalog and the
\* stats it ends with.
RECURSIVE AloneOk(_, _, _, _, _)
AloneOk(entries, existing, cat, st, language) ==
  IF Len(entries) = 0 THEN [catalog |-> cat, stats |-> st]
  ELSE
    LET k == entries[1][1]
        v == entries[1][2]
        text == TranslateString(
                  CHOOSE r \in TranslationResponses("ok", language, v) : TRUE).text
        forms == IF HasVariables(v)
                 THEN PluralFormsOf(k, text,
                        CHOOSE r \in ExpansionResponses("ok", language, k, v) : TRUE)
                 ELSE Fallback(k, text)
    IN IF Truthy(existing, k)
       THEN AloneOk(Tail(entries), existing, cat,
                    [st EXCEPT !.skipped = @ + 1], language)
       ELSE IF IsPluralKey(k, v)
       THEN AloneOk(Tail(entries), existing, MergeForms(cat, ObjectEntries(forms)),
                    [st EXCEPT !.translated =
                       @ + AdditionalForms(k, ObjectEntries(forms)) + 1], language)
       ELSE AloneOk(Tail(entries), existing, Put(cat, k, text),
                    [st EXCEPT !.translated = @ + 1], language)

Earlier(n) == { targetLanguages[j] : j \in 1..(n - 1) }

\* The batch is not aborted: every target language is reported, in order.
C8_BatchGoesOn ==
  /\ Len(report) <= Len(targetLanguages)
  /\ \A n \in 1..Len(report) : report[n].language = targetLanguages[n]
  /\ cmd = "finished" => Len(report) = Len(targetLanguages)
  /\ cmd = "exited" => report = <<>>

\* A language named for the first time in the batch, whose completion service
\* always answers, ends as if it had been translated alone.
C8_AsIfAlone ==
  \A n \in 1..Len(report) :
    LET r == report[n]
        start == LoadJsonFile(files0[r.language]).data
        alone == AloneOk(sourceFile.data, start, start,
                         [ZeroStats EXCEPT !.total = Len(sourceFile.data)], r.language)
    IN (client[r.language] = "ok" /\ r.outcome = "completed"
          /\ r.language \notin Earlier(n)) =>
         /\ r.stats = alone.stats
         /\ LoadJsonFile(files[r.language]).data = alone.catalog

\* C8 (as claimed): the batch goes on after a failing language, a language
\* whose completion service always fails reports failed == total and
\* translated == 0, and a language whose service always answers ends as if
\* translated alone.
C8_BatchIsolationTotal ==
  /\ C8_BatchGoesOn
  /\ C8_AsIfAlone
  /\ \A n \in 1..Len(report) :
       (client[report[n].language] = "fail" /\ report[n].outcome = "completed") =>
         /\ report[n].stats.failed = report[n].stats.total
         /\ report[n].stats.translated = 0

\* C8 (amended): as claimed, but the always failing language reports
\* failed == total - skipped: the keys its target catalog already holds are
\* skipped, not failed.
C8_BatchIsolation ==
  /\ C8_BatchGoesOn
  /\ C8_AsIfAlone
  /\ \A n \in 1..Len(report) :
       (client[report[n].language] = "fail" /\ report[n].outcome = "completed") =>
         /\ report[n].stats.failed + report[n].stats.skipped = report[n].stats.total
         /\ report[n].stats.translated = 0

\* A batch of an always failing language and then an always answering one,
\* and one of a language whose translateFile throws and then an answering one.
C8_Witness ==
  /\ cmd = "finished" /\ Len(report) = 2
  /\ report[1].language # report[2].language
  /\ client[report[1].language] = "fail" /\ client[report[2].language] = "ok"
  /\ report[1].outcome = "completed"
  /\ report[1].stats.failed = report[1].stats.total /\ report[1].stats.total >= 2
  /\ report[2].outcome = "completed" /\ report[2].stats.translated >= 2

\* A key of the merged catalog that this run wrote for source entry j: the
\* key itself, or a plural form of it.
DerivedFrom(k, j) ==
  \/ k = Key(j)
  \/ /\ IsPluralKey(Key(j), Value(j))
     /\ Len(k) = Len(Key(j))
     /\ BaseKey(Key(j)) = SubSeq(k, 1, Len(k) - 1)

\* C9 (as claimed): every value this run put into the merged catalog for a
\* source entry, or for a plural form of it, holds the placeholders of the
\* source value.
C9_PlaceholdersPreserved ==
  Running =>
    \A j \in 1..Len(sourceStrings) : \A k \in DOMAIN newTranslations :
      (DerivedFrom(k, j) /\ EntryOf(newTranslations, k) # EntryOf(existingTranslations, k)) =>
        Placeholders(Value(j)) \subseteq Placeholders(newTranslations[k])

OneKey(key) == BaseKey(key) \o <<"_one">>

\* The step that expands base_other leaves the entry for base_one as it was.
C10_OneKeptStep ==
  pc = "plural" =>
    EntryOf(newTranslations', OneKey(Key(idx))) = EntryOf(newTranslations, OneKey(Key(idx)))

\* C10 (as claimed): plural expansion never creates, changes or overwrites the
\* merged catalog's entry for base_one.
C10_OneKeptIntact == [][C10_OneKeptStep]_vars

\* The step that merges what the expansion of a plural key returned.
C11_ExpandStep ==
  pc = "plural" =>
    LET M == ObjectEntries(pluralForms')
        keys == { M[j][1] : j \in 1..Len(M) }
    IN /\ \A j \in 1..Len(M) : EntryOf(newTranslations', M[j][1]) = <<M[j][2]>>
       /\ \A k \in (DOMAIN newTranslations \cup DOMAIN newTranslations') \ keys :
            EntryOf(newTranslations', k) = EntryOf(newTranslations, k)
       /\ stats' = [stats EXCEPT !.translated = @ + 1 + Cardinality(keys \ {sourceStrings[idx][1]})]

\* The step that assigns the translation of a key that is not plural.
C11_PlainStep ==
  (pc = "loop" /\ pc' = "save") =>
    /\ stats' = [stats EXCEPT !.translated = @ + 1]
    /\ newTranslations' = Put(newTranslations, sourceStrings[idx][1], translatedText')

Answered == { c \in 1..Len(calls) : calls[c].kind = "translate" /\ calls[c].ok }

\* translated is the number of keys whose translation call answered, plus
\* the additional forms their expansions returned.
C11_Count ==
  Running =>
    LET counted == Cardinality(Answered) - (IF pc = "plural" THEN 1 ELSE 0)
    IN /\ stats.translated >= counted
       /\ (\A c \in 1..Len(calls) : calls[c].form # "object") => stats.translated = counted

\* C11: the step that merges the mapping M returned for a translated plural
\* key k assigns every entry of M, leaves every other entry alone and adds
\* 1 + |keys of M other than k| to translated; the step that assigns a
\* translated key that is not plural adds 1; so translated is never less than
\* the number of keys whose translation call answered, and equals it when no
\* expansion answered with a mapping.
C11_TranslatedCount ==
  /\ []C11_Count
  /\ [][C11_ExpandStep /\ C11_PlainStep]_vars

\* A run whose expansion returned additional forms: translated exceeds total.
C11_Witness ==
  /\ pc = "returned"
  /\ stats.translated > stats.total
  /\ stats.failed = 0 /\ stats.skipped = 0
  /\ \E c \in 1..Len(calls) : calls[c].kind = "expand" /\ calls[c].form = "object"

\* The plural test as it is stated: the key's last token is the _other
\* suffix and the value holds an opening marker.
C12_Stated(key, value) ==
  /\ Len(key) > 0 /\ key[Len(key)] = "_other"
  /\ \E j \in 1..Len(value) : value[j] = "{{"

\* isPluralKey on the keys and values of the source catalogs.
C12_Cases ==
  /\ \A e \in SourceEntries \cup PluralSourceEntries :
       IsPluralKey(e[1], e[2]) <=> C12_Stated(e[1], e[2])
  /\ IsPluralKey(K_count_other, <<"{{", "count", "}}", "items">>)
  /\ ~IsPluralKey(K_count_one, <<"{{", "count", "}}", "item">>)
  /\ ~IsPluralKey(K_title_other, <<"Items">>)

\* The step in which the translation call of a key answers: the key goes on
\* to its plural expansion, or is assigned at once.
C12_DecisionStep ==
  (pc = "loop" /\ Len(calls') = Len(calls) + 1 /\ calls'[Len(calls')].ok) =>
    /\ pc' \in {"plural", "save"}
    /\ pc' = "plural" <=> C12_Stated(sourceStrings[idx][1], sourceStrings[idx][2])

\* C12: isPluralKey(key, value) holds exactly when the key ends with _other
\* and the value contains {{ (not for count_one with a placeholder, not for
\* title_other without one), and translateFile goes on to the plural
\* expansion of a translated key exactly when isPluralKey holds for the key
\* and its source value.
C12_PluralDecision ==
  /\ []C12_Cases
  /\ [][C12_DecisionStep]_vars

\* A run that assigned title_other at once and expanded count_other.
C12_Witness ==
  /\ pc = "returned"
  /\ \E a, b \in 1..Len(calls) :
       /\ calls[a].kind = "translate" /\ calls[a].key = K_title_other /\ calls[a].ok
       /\ calls[b].kind = "expand" /\ calls[b].key = K_count_other
  /\ \A c \in 1..Len(calls) : calls[c].kind = "expand" => calls[c].key # K_title_other
  /\ stats.failed = 0

CallsFor(kind, k) == { c \in 1..Len(calls) : calls[c].kind = kind /\ calls[c].key = k }

\* C13: in one run of translateFile exactly one translation request is made
\* for every source key that is not skipped and none for a skipped key; at
\* most one expansion request is made per source key, only for a key for
\* which isPluralKey holds and right after that key's translation request
\* answered; no request is made for anything but a source key, nor for a key
\* the loop has not reached, nor twice for the same key.
C13_CallBudget ==
  Running =>
    /\ \A c \in 1..Len(calls) : \E j \in 1..Len(sourceStrings) :
         calls[c].key = sourceStrings[j][1]
    /\ \A j \in 1..Len(sourceStrings) :
         LET k == sourceStrings[j][1]
             tr == CallsFor("translate", k)
             ex == CallsFor("expand", k)
         IN /\ Truthy(existingTranslations, k) => (tr = {} /\ ex = {})
            /\ Cardinality(tr) <= 1 /\ Cardinality(ex) <= 1
            /\ (j < idx /\ ~Truthy(existingTranslations, k)) => Cardinality(tr) = 1
            /\ j > idx => (tr = {} /\ ex = {})
            /\ \A c \in ex :
                 /\ IsPluralKey(k, sourceStrings[j][2])
                 /\ c > 1 /\ calls[c - 1].kind = "translate"
                 /\ calls[c - 1].key = k /\ calls[c - 1].ok

\* A run that skipped a key and made two requests for a plural key: its
\* translation and its expansion.
C13_Witness ==
  /\ pc = "returned"
  /\ stats.total = 2 /\ stats.skipped = 1
  /\ Len(calls) = 2
  /\ calls[1].kind = "translate" /\ calls[1].ok
  /\ calls[2].kind = "expand" /\ calls[2].key = calls[1].key

\* loadJsonFile on a missing, an unparsable and a parsable file.
C14_Loads ==
  /\ LoadJsonFile(Missing) = [ok |-> TRUE, data |-> EmptyCatalog]
  /\ ~LoadJsonFile(Corrupt).ok
  /\ \A cat \in TargetCatalogs : LoadJsonFile(FileOf(cat)) = [ok |-> TRUE, data |-> cat]

\* The step in which translateFile loads its two catalogs.
C14_BeginStep ==
  (pc = "idle" /\ pc' # "idle") =>
    LET src == sourceFile
        tgt == files[targetLanguages[li]]
    IN /\ pc' \in {"loop", "thrown"}
       /\ (src.state = "corrupt" \/ tgt.state = "corrupt") => pc' = "thrown"
       /\ (~diskFaulty /\ src.state # "corrupt" /\ tgt.state # "corrupt") => pc' = "loop"
       /\ (pc' = "loop" /\ tgt.state = "missing") =>
            (existingTranslations' = EmptyCatalog /\ newTranslations' = EmptyCatalog)

\* C14: loadJsonFile answers a path that does not exist with an empty
\* catalog and rethrows every other failure; so translateFile on a missing
\* target file starts from an empty merged catalog (and does not throw for
\* that), and a source or target file that cannot be parsed makes it throw.
C14_MissingIsEmpty ==
  /\ []C14_Loads
  /\ [][C14_BeginStep]_vars

\* The first language's target file could not be parsed and its translateFile
\* threw; the second language's target file is missing and its translateFile
\* starts on an empty merged catalog.
C14_Witness ==
  /\ Len(report) = 1 /\ report[1].outcome = "error" /\ report[1].error = "target"
  /\ pc = "loop" /\ idx = 1 /\ Len(sourceStrings) >= 1
  /\ files[Language].state = "missing"
  /\ newTranslations = EmptyCatalog

\* Once a loadPluralRules of a language returned a document, every later one
\* of that language returns the same document and reads no file.
C15_CachedForGood ==
  \A a, b \in 1..Len(loads) :
    (a < b /\ loads[a].language = loads[b].language /\ ~loads[a].rules.null) =>
      (loads[b].rules = loads[a].rules /\ ~loads[b].read)

\* Null is never cached, and what is cached for, or returned for, a language
\* is a document of that language's rule file.
C15_OwnDocuments ==
  /\ \A l \in DOMAIN pluralRulesCache :
       ~pluralRulesCache[l].null /\ pluralRulesCache[l] \in RuleDocuments(l)
  /\ \A a \in 1..Len(loads) :
       ~loads[a].rules.null => loads[a].rules \in RuleDocuments(loads[a].language)

\* The step of a loadPluralRules: with no entry for the language it reads the
\* file; a missing or unreadable file is answered with null and leaves the
\* cache as it was, a document is returned and cached.
C15_LoadStep ==
  (Len(loads') = Len(loads) + 1) =>
    LET load == loads'[Len(loads')]
        file == ruleFiles[load.language]
    IN /\ load.language \notin DOMAIN pluralRulesCache =>
            /\ load.read
            /\ file.state \in {"missing", "corrupt"} =>
                 (load.rules = NoRules /\ pluralRulesCache' = pluralRulesCache)
            /\ file.state = "present" =>
                 (load.rules = file.data /\ pluralRulesCache'[load.language] = file.data)
       /\ load.language \in DOMAIN pluralRulesCache =>
            (load.rules = pluralRulesCache[load.language]
               /\ pluralRulesCache' = pluralRulesCache)

\* C15: once loadPluralRules(L) has read the document of language L, every
\* later loadPluralRules(L) on the same Pluralizer returns that document and
\* reads no file, whatever became of the file; a missing or unreadable
\* document is answered with null and is not cached; what is cached for one
\* language is never returned for another.
C15_PluralRuleCache ==
  /\ [](C15_CachedForGood /\ C15_OwnDocuments)
  /\ [][C15_LoadStep]_vars

\* The document of ar was read, its file was replaced, and the next load of
\* ar returned the document read first; a load of fr, whose file is missing
\* or unreadable, returned null and left no entry.
C15_Witness ==
  /\ Len(loads) = 3
  /\ loads[1].language = "ar" /\ loads[1].read /\ ~loads[1].rules.null
  /\ loads[2].language = "ar" /\ ~loads[2].read /\ loads[2].rules = loads[1].rules
  /\ ruleFiles["ar"].state = "present" /\ ruleFiles["ar"].data # loads[1].rules
  /\ loads[3].language = "fr" /\ loads[3].rules.null
  /\ DOMAIN pluralRulesCache = {"ar"}

\* The step in which translateFile throws: it is the step of the loads, with
\* no call made, no file written and nothing counted.
C16_ThrowStep ==
  pc' = "thrown" =>
    /\ pc = "idle"
    /\ calls = <<>> /\ calls' = <<>>
    /\ files' = files
    /\ stats' = ZeroStats /\ newTranslations' = EmptyCatalog /\ idx' = 1

\* While the source catalog or the target catalog of the language at hand
\* cannot be parsed, no call has been made and no target file was written.
C16_NothingDone ==
  (li <= Len(targetLanguages)
     /\ (sourceFile.state = "corrupt" \/ files0[Language].state = "corrupt")) =>
    /\ pc \in {"idle", "thrown"}
    /\ calls = <<>>
    /\ files = files0

\* C16: a failure to load or parse the source catalog or the existing target
\* catalog aborts translateFile before any translation work: the loop is
\* never entered, and when the error is thrown no completion call has been
\* made and no target file has been written.
C16_AbortBeforeWork ==
  /\ [](C16_NothingDone /\ (pc = "thrown" => (calls = <<>> /\ files = files0)))
  /\ [][C16_ThrowStep]_vars

\* translateFile threw on a target catalog that cannot be parsed, with
\* source keys left to translate.
C16_Witness ==
  /\ pc = "thrown" /\ error = "target"
  /\ sourceFile.state = "present" /\ Len(sourceFile.data) >= 1
  /\ files[Language].state = "corrupt"
  /\ calls = <<>> /\ files = files0

Opens(value) == \E j \in 1..Len(value) : value[j] = "{{"
Closes(value) == \E j \in 1..Len(value) : value[j] = "}}"

ShortCircuited(g) ==
  /\ g.forms = Fallback(g.key, g.translatedValue)
  /\ g.asked = 0
  /\ g.loaded = 0

\* C17 (as claimed): generatePluralForms short-circuits exactly when the
\* source value contains no placeholder marker: then it returns only
\* {key: translatedValue}, with no completion call and no rule load; for every
\* value that contains a marker, so for every value for which isPluralKey
\* holds, it makes exactly one completion call.
C17_ShortCircuitExactly ==
  \A n \in 1..Len(generated) :
    LET g == generated[n]
    IN /\ ~(Opens(g.value) \/ Closes(g.value)) => ShortCircuited(g)
       /\ (Opens(g.value) \/ Closes(g.value)) => g.asked = 1
       /\ IsPluralKey(g.key, g.value) => g.asked = 1

\* What a generatePluralForms call did, by the markers of its value.
C17_ByMarkers ==
  \A n \in 1..Len(generated) :
    LET g == generated[n]
    IN /\ ~(Opens(g.value) /\ Closes(g.value)) => ShortCircuited(g)
       /\ (Opens(g.value) /\ Closes(g.value)) => (g.asked = 1 /\ g.loaded = 1)

\* The step of a generatePluralForms call loads the rules when it does not
\* short-circuit, and only then.
C17_GenerateStep ==
  (generated' # generated) =>
    LET g == generated'[1]
    IN /\ Len(loads') = Len(loads) + g.loaded
       /\ g.loaded = 0 => pluralRulesCache' = pluralRulesCache

\* C17 (amended): generatePluralForms short-circuits exactly when the source
\* value lacks the opening marker {{ or lacks the closing marker }}: then it
\* returns only {key: translatedValue}, with no completion call and no rule
\* load; for every value that contains both markers it makes exactly one
\* completion call, after one rule load.
C17_ShortCircuit ==
  /\ []C17_ByMarkers
  /\ [][C17_GenerateStep]_vars

\* A generatePluralForms call for a key and value for which isPluralKey
\* holds, the value opening a placeholder it does not close: short-circuited.
C17_Witness ==
  /\ Len(generated) = 1
  /\ IsPluralKey(generated[1].key, generated[1].value)
  /\ ~Closes(generated[1].value)
  /\ ShortCircuited(generated[1])
  /\ loads # <<>>

\* The place of a source key in the insertion order of the source catalog.
Pos(k) == CHOOSE j \in 1..Len(sourceStrings) : sourceStrings[j][1] = k

\* The calls made so far are in the order of the source catalog, none is for
\* a key after the one at hand, and between two keys every call is for a key
\* already done.
C18_InOrder ==
  Running =>
    /\ idx \in 1..(Len(sourceStrings) + 1)
    /\ \A a, b \in 1..Len(calls) : a < b => Pos(calls[a].key) <= Pos(calls[b].key)
    /\ \A c \in 1..Len(calls) : Pos(calls[c].key) <= idx
    /\ pc \in {"loop", "returned"} => \A c \in 1..Len(calls) : Pos(calls[c].key) < idx
    /\ pc \in {"plural", "save"} =>
         (idx <= Len(sourceStrings) /\ calls # <<>>
            /\ calls[Len(calls)].key = sourceStrings[idx][1])

\* A step of the loop makes at most one call or at most one write, never
\* both, for the key at hand, and goes on to the next key at most.
C18_OneAtATime ==
  pc \in {"loop", "plural", "save"} =>
    /\ idx' \in {idx, idx + 1}
    /\ sourceStrings' = sourceStrings
    /\ \/ calls' = calls
       \/ /\ Len(calls') = Len(calls) + 1
          /\ SubSeq(calls', 1, Len(calls)) = calls
          /\ calls'[Len(calls')].key = sourceStrings[idx][1]
          /\ pc = (IF calls'[Len(calls')].kind = "translate" THEN "loop" ELSE "plural")
          /\ files' = files
    /\ files' # files => (pc = "save" /\ idx' = idx + 1 /\ pc' = "loop")
    /\ idx' = idx + 1 => pc' = "loop"

\* C18: the source keys are processed one after the other in the insertion
\* order of the source catalog: the translation call of a key is made only
\* when everything for the keys before it is done (call, expansion, merge,
\* save or failure count), and no step makes more than one call or one write.
C18_Sequential ==
  /\ []C18_InOrder
  /\ [][C18_OneAtATime]_vars

\* Two keys done in order: the first translated, expanded and saved, then
\* the second translated and saved.
C18_Witness ==
  /\ pc = "returned" /\ Len(sourceStrings) = 2
  /\ Len(calls) = 3
  /\ calls[1].kind = "translate" /\ calls[1].key = sourceStrings[1][1]
  /\ calls[2].kind = "expand" /\ calls[2].key = sourceStrings[1][1]
  /\ calls[3].kind = "translate" /\ calls[3].key = sourceStrings[2][1]
  /\ stats.failed = 0
  /\ Persisted = newTranslations

\* C19 (as claimed): at the return of a run in which nothing failed, so that
\* every source key was skipped or counted as translated and saved, every
\* source key has a non-empty value in the target file, and a following run
\* skips it.
C19_TranslatedKeysPersisted ==
  (pc = "returned" /\ stats.failed = 0) =>
    \A j \in 1..Len(sourceStrings) : Truthy(Persisted, sourceStrings[j][1])

\* C20 (as claimed): between two keys and at the return, skipped + failed +
\* the number of source keys counted as translated is the number of source
\* keys processed so far; and at the return of a run on a source catalog with
\* no plural key, translated + skipped + failed == total, total being the
\* number of source keys, whichever of the translation call and the save
\* failed.
C20_EveryKeyCountedOnce ==
  /\ pc \in {"loop", "returned"} =>
       stats.skipped + stats.failed + Cardinality(Answered) = idx - 1
  /\ (pc = "returned"
        /\ \A j \in 1..Len(sourceStrings) :
             ~IsPluralKey(sourceStrings[j][1], sourceStrings[j][2])) =>
       /\ stats.total = Len(sourceStrings)
       /\ stats.translated + stats.skipped + stats.failed = stats.total

\* The source keys whose entry in the target file is not the one loaded at
\* the start of the run.
Touched ==
  { j \in 1..Len(sourceStrings) :
      EntryOf(Persisted, sourceStrings[j][1])
        # EntryOf(existingTranslations, sourceStrings[j][1]) }

\* The source keys whose translation call threw.
FailedCalls ==
  { j \in 1..Len(sourceStrings) :
      \E c \in 1..Len(calls) :
        /\ calls[c].kind = "translate" /\ ~calls[c].ok
        /\ calls[c].key = sourceStrings[j][1] }

\* C21 (as claimed): in a run on a source catalog with no plural key, a key
\* counted as failed leaves no trace in the target file: the entry of a key
\* whose translation call threw is the loaded one after every write, and at
\* the return the keys whose entry changed are at most the keys that were
\* neither skipped nor counted as failed, also when the failure was a failed
\* save and a later key was saved.
C21_FailedKeyLeavesNoTrace ==
  (pc \in {"loop", "returned"}
     /\ \A j \in 1..Len(sourceStrings) :
          ~IsPluralKey(sourceStrings[j][1], sourceStrings[j][2])) =>
    /\ FailedCalls \cap Touched = {}
    /\ pc = "returned" =>
         Cardinality(Touched) <= stats.total - stats.skipped - stats.failed

\* The keys a run may add for source entry j: the key itself and, for a
\* plural key base_other, base with one of the plural suffixes.
Allowed(k, j) ==
  \/ k = sourceStrings[j][1]
  \/ /\ IsPluralKey(sourceStrings[j][1], sourceStrings[j][2])
     /\ \E suffix \in PluralSuffixes : k = BaseKey(sourceStrings[j][1]) \o <<suffix>>

\* C22 (as claimed): every key the run added to the target file is a source
\* key or a plural form base + suffix of a plural source key base_other, and
\* every value the run wrote is a string, whatever the expansion answered.
C22_OnlyPluralFormsOfStrings ==
  Running =>
    \A k \in DOMAIN Persisted :
      EntryOf(Persisted, k) # EntryOf(existingTranslations, k) =>
        /\ \E j \in 1..Len(sourceStrings) : Allowed(k, j)
        /\ IsString(Persisted[k])

====
